---- MODULE Spec2Model ----
(***************************************************************************)
(* A model of molecularnetwork: the MolecularNetwork builder (graph.py),   *)
(* its FingerprintCalculator (featurizer.py) and SimilarityCalculator      *)
(* (similarity.py).                                                        *)
(*                                                                         *)
(* RDKit, numpy, networkx and joblib are libraries the code calls.  They   *)
(* are modelled by what the code relies on:                                *)
(*   - Chem.MolFromSmiles returns a molecule or None;                      *)
(*   - a DataStructs similarity function is some function of its two       *)
(*     arguments (not necessarily symmetric) into a bounded range, here    *)
(*     the integers 0..MaxScore; the variable score holds the one the      *)
(*     session runs with;                                                  *)
(*   - np.unique coerces its argument to one dtype, and returns the sorted *)
(*     distinct values;                                                    *)
(*   - networkx.Graph is a set of nodes with attribute dicts and a set of  *)
(*     unordered edges; add_nodes_from and add_edge merge into it.         *)
(* Python indices are 0-based; sequences here are 1-based, so smiles[k] of *)
(* the code is smiles_list[k + 1] here.  Node ids are the code's: 0..N-1.  *)
(***************************************************************************)
EXTENDS Integers, Sequences, FiniteSets, TLC

VARIABLES descriptor, sim_metric, sim_threshold, score, graph, disk, calls, last

vars == <<descriptor, sim_metric, sim_threshold, score, graph, disk, calls, last>>

\* Longest smiles_list and longest classes a call is given.
MaxLen == 2
\* Similarity scores are the integers 0..MaxScore.
MaxScore == 1
\* Number of operations a session performs on its builder.
MaxCalls == 2

(***************************************************************************)
(* Values                                                                  *)
(***************************************************************************)
\* SMILES strings RDKit parses, and strings it does not.
ValidSmiles == {"C", "CC"}
InvalidSmiles == {"bogus!!"}
SmilesUniverse == ValidSmiles \cup InvalidSmiles

\* Chem.MolFromSmiles: the molecule (named by its SMILES), or None.
None == "None"
MolFromSmiles(smiles) == IF smiles \in ValidSmiles THEN smiles ELSE None

\* The keys of FingerprintCalculator.descriptors.
descriptors == {"atompairs", "maccs", "morgan2", "morgan3", "rdkit", "topo"}

\* descriptors[name](mol): the fingerprint of a molecule, of the descriptor's kind.
Fingerprint(name, mol) == [kind |-> name, mol |-> mol]

\* The keys of SimilarityCalculator.metrics.
metrics == {"asymmetric", "braunblanquet", "cosine", "dice", "kulczynski",
            "mcconnaughey", "onbit", "rogotgoldberg", "russel", "sokal",
            "tanimoto", "tversky"}

\* The number of positional parameters of metrics[name]: the DataStructs
\* functions take the two fingerprints, the "tversky" lambda takes
\* (m1, m2, alpha, beta).
MetricArity(name) == IF name = "tversky" THEN 4 ELSE 2

\* The names a session constructs its builder with: a supported one, the
\* parameterised metric, and one that is in neither table.
DescriptorChoices == {"morgan2", "ecfp"}
MetricChoices == {"tanimoto", "tversky", "euclidean"}
Thresholds == 0..(MaxScore + 1)
Scores == 0..MaxScore
ScoreTables == [ValidSmiles \X ValidSmiles -> Scores]
\* The table of a session whose scorer never returns a score.
ZeroTable == [p \in ValidSmiles \X ValidSmiles |-> 0]

\* Errors: the exception's type and its args.
NoError == [type |-> "none", args |-> <<>>]
Raise(type, args) == [type |-> type, args |-> args]

(***************************************************************************)
(* Raw labels.  A label is a Python value: an int, a float or a str.  num  *)
(* is twice the value of a number (so 3 is 1.5), and the rank of a str in  *)
(* StrTable, which is in lexicographic order.  The labels of one call are  *)
(* mutually orderable: all numbers, or all strs.                           *)
(***************************************************************************)
StrTable == <<"x", "y">>
Digits == <<"0", "1", "2", "3", "4", "5", "6", "7", "8", "9">>
PyInt(n) == [ty |-> "int", num |-> 2 * n]
PyFloatHalves(h) == [ty |-> "float", num |-> h]
PyString(r) == [ty |-> "str", num |-> r]
NumberLabels == {PyInt(1), PyFloatHalves(3)}
StringLabels == {PyString(1), PyString(2)}

\* str(v) of a Python or numpy scalar.
PyStr(v) ==
    CASE v.ty = "int" -> Digits[(v.num \div 2) + 1]
      [] v.ty = "float" ->
            Digits[(v.num \div 2) + 1] \o "." \o (IF v.num % 2 = 0 THEN "0" ELSE "5")
      [] OTHER -> StrTable[v.num]

\* a == b of Python: numbers compare by value whatever their type.
PyEq(a, b) == ((a.ty = "str") <=> (b.ty = "str")) /\ a.num = b.num

SeqsUpTo(S, n) == UNION {[1..k -> S] : k \in 0..n}
SmilesLists == SeqsUpTo(SmilesUniverse, MaxLen)
ClassLists == SeqsUpTo(NumberLabels, MaxLen) \cup SeqsUpTo(StringLabels, MaxLen)

(***************************************************************************)
(* FingerprintCalculator (featurizer.py)                                   *)
(***************************************************************************)
NoFingerprint == [kind |-> None, mol |-> None]

\* calculate_fingerprint(smiles): the fingerprint, or the exception raised.
\* InvalidSMILESError is raised bare: its args are empty.
calculate_fingerprint(smiles) ==
    LET mol == MolFromSmiles(smiles)
    IN  IF mol # None
        THEN IF descriptor \in descriptors
             THEN [fp |-> Fingerprint(descriptor, mol), error |-> NoError]
             ELSE [fp |-> NoFingerprint, error |-> Raise("KeyError", <<descriptor>>)]
        ELSE [fp |-> NoFingerprint, error |-> Raise("InvalidSMILESError", <<>>)]

\* The list comprehension of _calculate_fingerprints from position k on: it
\* stops at the first exception.
RECURSIVE FingerprintsFrom(_, _, _)
FingerprintsFrom(smiles_list, k, fps) ==
    IF k > Len(smiles_list)
    THEN [fps |-> fps, error |-> NoError]
    ELSE LET r == calculate_fingerprint(smiles_list[k])
         IN  IF r.error # NoError
             THEN [fps |-> fps, error |-> r.error]
             ELSE FingerprintsFrom(smiles_list, k + 1, Append(fps, r.fp))

_calculate_fingerprints(smiles_list) == FingerprintsFrom(smiles_list, 1, <<>>)

(***************************************************************************)
(* SimilarityCalculator (similarity.py)                                    *)
(***************************************************************************)
Max(a, b) == IF a >= b THEN a ELSE b

\* self.metrics[self.sim_metric](fp1, fp2): a KeyError for a name not in the
\* table, a TypeError when the table's function takes more than the two
\* arguments it is given, and the metric's score otherwise.
MetricCall(fp1, fp2) ==
    IF sim_metric \notin metrics
    THEN [val |-> 0, error |-> Raise("KeyError", <<sim_metric>>)]
    ELSE IF MetricArity(sim_metric) # 2
    THEN [val |-> 0,
          error |-> Raise("TypeError", <<"missing 2 required positional arguments">>)]
    ELSE [val |-> score[<<fp1.mol, fp2.mol>>], error |-> NoError]

\* calculate_similarity(fp1, fp2): the max of the metric in both argument orders.
calculate_similarity(fp1, fp2) ==
    LET a == MetricCall(fp1, fp2)
        b == MetricCall(fp2, fp1)
    IN  IF a.error # NoError THEN a
        ELSE IF b.error # NoError THEN b
        ELSE [val |-> Max(a.val, b.val), error |-> NoError]

(***************************************************************************)
(* numpy, as _convert_classes uses it                                      *)
(***************************************************************************)
\* The dtype np.asarray gives a list of labels: float64 for the empty list and
\* for numbers with a float among them, int64 for ints, a string dtype for strs.
NpDtype(classes) ==
    IF \E p \in DOMAIN classes : classes[p].ty = "str" THEN "str"
    ELSE IF classes # <<>> /\ \A p \in DOMAIN classes : classes[p].ty = "int" THEN "int"
    ELSE "float"

NpCoerce(v, dtype) == [ty |-> dtype, num |-> v.num]

RECURSIVE SortAsc(_)
SortAsc(S) ==
    IF S = {} THEN <<>>
    ELSE LET m == CHOOSE x \in S : \A y \in S : x.num <= y.num
         IN  <<m>> \o SortAsc(S \ {m})

\* The distinct elements in the order of their first occurrence, unsorted.
RECURSIVE FirstOccurrences(_, _)
FirstOccurrences(arr, k) ==
    IF k > Len(arr) THEN <<>>
    ELSE IF \E q \in 1..(k - 1) : arr[q] = arr[k] THEN FirstOccurrences(arr, k + 1)
    ELSE <<arr[k]>> \o FirstOccurrences(arr, k + 1)

np_unique_unsorted(classes) ==
    FirstOccurrences([p \in DOMAIN classes |-> NpCoerce(classes[p], NpDtype(classes))], 1)

\* np.unique(classes): the sorted distinct elements of the coerced array.
np_unique(classes) ==
    SortAsc({NpCoerce(classes[p], NpDtype(classes)) : p \in DOMAIN classes})

\* np.where(unique_classes == c)[0], as 1-based positions.
Where(unique_classes, c) ==
    {i \in DOMAIN unique_classes : PyEq(unique_classes[i], c)}

SetMin(S) == CHOOSE x \in S : \A y \in S : x <= y

(***************************************************************************)
(* networkx.Graph                                                          *)
(***************************************************************************)
\* A node attribute the node's dict does not hold.
Absent == "<absent>"
NoAttrs == [smiles |-> Absent, categorical_label |-> Absent]
EmptyGraph == [nodes |-> [n \in {} |-> NoAttrs], edges |-> {}]

\* Graph.add_nodes_from(weighted_nodes): each listed node is added, or its
\* attributes updated; the other nodes and all edges stay.
add_nodes_from(g, weighted_nodes) ==
    [g EXCEPT !.nodes =
        [n \in (DOMAIN g.nodes) \cup (DOMAIN weighted_nodes) |->
            IF n \in DOMAIN weighted_nodes THEN weighted_nodes[n] ELSE g.nodes[n]]]

\* Graph.add_edge(i, j): the edge is added, and each end that is not a node yet
\* is added without attributes.
add_edge(g, i, j) ==
    [nodes |-> [n \in (DOMAIN g.nodes) \cup {i, j} |->
                    IF n \in DOMAIN g.nodes THEN g.nodes[n] ELSE NoAttrs],
     edges |-> g.edges \cup {{i, j}}]

\* A graph an earlier session built from three structures and saved.
StoredGraph ==
    [nodes |-> [n \in 0..2 |->
                    [smiles |-> IF n = 1 THEN "CC" ELSE "C",
                     categorical_label |-> IF n = 1 THEN "y" ELSE "x"]],
     edges |-> {{0, 2}}]

(***************************************************************************)
(* MolecularNetwork (graph.py)                                             *)
(***************************************************************************)
\* _convert_classes(classes): (unique_classes, class_labels), or the IndexError
\* of [0][0] on an empty np.where result.
_convert_classes(classes) ==
    LET unique_classes == np_unique(classes)
        categorical_labels == [i \in DOMAIN unique_classes |-> i - 1]
    IN  IF \E p \in DOMAIN classes : Where(unique_classes, classes[p]) = {}
        THEN [unique_classes |-> unique_classes, class_labels |-> <<>>,
              error |-> Raise("IndexError", <<"index 0 is out of bounds">>)]
        ELSE [unique_classes |-> unique_classes,
              class_labels |->
                  [p \in DOMAIN classes |->
                      categorical_labels[SetMin(Where(unique_classes, classes[p]))]],
              error |-> NoError]

\* The attribute dict _add_nodes gives a node.
NodeAttrs(smiles_list, unique_classes, node, value) ==
    [smiles |-> smiles_list[node + 1],
     categorical_label |-> PyStr(unique_classes[value + 1])]

\* _add_nodes: zip(range(len(smiles_list)), categorical_labels) stops at the
\* shorter of the two.
_add_nodes(g, smiles_list, unique_classes, categorical_labels) ==
    LET num_nodes == Len(smiles_list)
        zipped == IF num_nodes <= Len(categorical_labels)
                  THEN num_nodes ELSE Len(categorical_labels)
        weighted_nodes ==
            [node \in 0..(zipped - 1) |->
                NodeAttrs(smiles_list, unique_classes, node, categorical_labels[node + 1])]
    IN  add_nodes_from(g, weighted_nodes)

\* _calculate_similarity(fp1, fp2) hands over to the SimilarityCalculator.
_calculate_similarity(fp1, fp2) == calculate_similarity(fp1, fp2)

\* The test with >= for >: a score equal to the threshold makes an edge.
AtOrAboveThreshold(sim_val, threshold) == sim_val >= threshold

\* The test turned around: an edge for a score below the threshold.
BelowThreshold(sim_val, threshold) == sim_val < threshold

\* The test of _add_edges: sim_val > self.sim_threshold.
AboveThreshold(sim_val, threshold) == sim_val > threshold

\* The loops of _add_edges from the pair (i, j) on, in the code's order; an
\* exception of the scorer ends them, with the edges added so far kept.
RECURSIVE AddEdgesFrom(_, _, _, _, _)
AddEdgesFrom(g, fps, threshold, i, j) ==
    IF i >= Len(fps) THEN [graph |-> g, error |-> NoError]
    ELSE IF j >= Len(fps) THEN AddEdgesFrom(g, fps, threshold, i + 1, i + 2)
    ELSE LET r == _calculate_similarity(fps[i + 1], fps[j + 1])
         IN  IF r.error # NoError
             THEN [graph |-> g, error |-> r.error]
             ELSE AddEdgesFrom(IF AboveThreshold(r.val, threshold)
                               THEN add_edge(g, i, j) ELSE g,
                               fps, threshold, i, j + 1)

_add_edges(g, fps) == AddEdgesFrom(g, fps, sim_threshold, 0, 1)

\* _create_graph with the nodes added before the fingerprints are computed.
_create_graph_nodes_first(g, smiles_list, classes) ==
    LET c == _convert_classes(classes)
        n == _add_nodes(g, smiles_list, c.unique_classes, c.class_labels)
        f == _calculate_fingerprints(smiles_list)
        e == _add_edges(n, f.fps)
    IN  IF c.error # NoError
        THEN [graph |-> g, error |-> c.error, stage |-> "_convert_classes",
              unique_classes |-> <<>>, class_labels |-> <<>>]
        ELSE IF f.error # NoError
        THEN [graph |-> n, error |-> f.error, stage |-> "_calculate_fingerprints",
              unique_classes |-> <<>>, class_labels |-> <<>>]
        ELSE [graph |-> e.graph, error |-> e.error,
              stage |-> IF e.error # NoError THEN "_add_edges" ELSE "return",
              unique_classes |-> c.unique_classes, class_labels |-> c.class_labels]

\* _create_graph on the graph g: the graph it leaves, the exception it raises,
\* if any, the step that raised it, and its locals unique_classes and
\* categorical_labels once _convert_classes has returned them.  self.graph is
\* the graph it was given: nothing clears it.
_create_graph(g, smiles_list, classes) ==
    LET f == _calculate_fingerprints(smiles_list)
        c == _convert_classes(classes)
        e == _add_edges(_add_nodes(g, smiles_list, c.unique_classes, c.class_labels),
                        f.fps)
    IN  IF f.error # NoError
        THEN [graph |-> g, error |-> f.error, stage |-> "_calculate_fingerprints",
              unique_classes |-> <<>>, class_labels |-> <<>>]
        ELSE IF c.error # NoError
        THEN [graph |-> g, error |-> c.error, stage |-> "_convert_classes",
              unique_classes |-> <<>>, class_labels |-> <<>>]
        ELSE [graph |-> e.graph, error |-> e.error,
              stage |-> IF e.error # NoError THEN "_add_edges" ELSE "return",
              unique_classes |-> c.unique_classes, class_labels |-> c.class_labels]

\* What the session last called, with its arguments and its outcome.
Called(op, smiles_list, classes, r) ==
    [op |-> op, smiles_list |-> smiles_list, classes |-> classes, error |-> r.error,
     stage |-> r.stage, unique_classes |-> r.unique_classes,
     class_labels |-> r.class_labels]

\* The outcome of an operation that returns and computes no labels.
Returned ==
    [error |-> NoError, stage |-> "return", unique_classes |-> <<>>, class_labels |-> <<>>]

\* MolecularNetwork(descriptor, sim_metric, sim_threshold): __init__ stores the
\* names and the threshold, and makes an empty graph.
Init ==
    /\ descriptor \in DescriptorChoices
    /\ sim_metric \in MetricChoices
    /\ sim_threshold \in Thresholds
    /\ score \in (IF /\ descriptor \in descriptors
                     /\ sim_metric \in metrics
                     /\ MetricArity(sim_metric) = 2
                  THEN ScoreTables ELSE {ZeroTable})
    /\ graph = EmptyGraph
    /\ disk = StoredGraph
    /\ calls = 0
    /\ last = Called("__init__", <<>>, <<>>, Returned)

\* create_graph(smiles_list, classes)
CreateGraph(smiles_list, classes) ==
    /\ calls < MaxCalls
    /\ LET r == _create_graph(graph, smiles_list, classes)
       IN  /\ graph' = r.graph
           /\ last' = Called("create_graph", smiles_list, classes, r)
    /\ calls' = calls + 1
    /\ UNCHANGED <<descriptor, sim_metric, sim_threshold, score, disk>>

\* save_graph(graph_name)
SaveGraph ==
    /\ calls < MaxCalls
    /\ disk' = graph
    /\ calls' = calls + 1
    /\ last' = Called("save_graph", <<>>, <<>>, Returned)
    /\ UNCHANGED <<descriptor, sim_metric, sim_threshold, score, graph>>

\* read_graph(graph_name)
ReadGraph ==
    /\ calls < MaxCalls
    /\ graph' = disk
    /\ calls' = calls + 1
    /\ last' = Called("read_graph", <<>>, <<>>, Returned)
    /\ UNCHANGED <<descriptor, sim_metric, sim_threshold, score, disk>>

Next ==
    \/ \E smiles_list \in SmilesLists, classes \in ClassLists :
          CreateGraph(smiles_list, classes)
    \/ SaveGraph
    \/ ReadGraph

Spec == Init /\ [][Next]_vars

\* The first call of a session is a create_graph: the builder is as constructed.
FirstBuild ==
    /\ calls = 0
    /\ \E smiles_list \in SmilesLists, classes \in ClassLists :
          CreateGraph(smiles_list, classes)

SpecFirstBuild == Init /\ [][FirstBuild]_vars

(***************************************************************************)
(* The claims.  In a state, last is the call that led to it; a step's      *)
(* call is last'.                                                          *)
(***************************************************************************)
\* The last call was a create_graph that returned.
Built == last.op = "create_graph" /\ last.error = NoError

\* The number of structures of the last call.
N == Len(last.smiles_list)

EqualLengths == Len(last.smiles_list) = Len(last.classes)

Unparseable(smiles_list) ==
    {k \in DOMAIN smiles_list : MolFromSmiles(smiles_list[k]) = None}

\* The score of the pair of nodes (i, j) of the last call: the larger of the
\* scorer's two answers.
PairScore(i, j) ==
    LET a == last.smiles_list[i + 1]
        b == last.smiles_list[j + 1]
    IN  IF score[<<a, b>>] >= score[<<b, a>>] THEN score[<<a, b>>] ELSE score[<<b, a>>]

\* C1: after a create_graph that returns, on equal-length inputs of N
\* structures, whatever was built or loaded before, the nodes are exactly
\* 0..N-1 and every edge is a pair {i, j} of this call whose score exceeds the
\* threshold: nothing of an earlier build or load survives.
C1_NetworkIsReplaced ==
    (Built /\ EqualLengths) =>
        /\ DOMAIN graph.nodes = 0..(N - 1)
        /\ \A e \in graph.edges :
              \E i \in 0..(N - 1), j \in 0..(N - 1) :
                  i < j /\ e = {i, j} /\ PairScore(i, j) > sim_threshold

\* C2: a create_graph whose smiles_list and classes differ in length fails with
\* ShapeMismatch and leaves the graph as it was.
C2_ShapeMismatchIsRejected ==
    [][(last'.op = "create_graph" /\ Len(last'.smiles_list) # Len(last'.classes))
          => (last'.error.type = "ShapeMismatch" /\ graph' = graph)]_vars

\* C3: a create_graph whose smiles_list holds an identifier that does not
\* parse fails, and leaves the graph (nodes, attributes, edges) exactly as it
\* was, whatever it was.
C3_InvalidStructureLeavesNetwork ==
    [][(last'.op = "create_graph" /\ Unparseable(last'.smiles_list) # {})
          => (last'.error # NoError /\ graph' = graph)]_vars

\* A create_graph failed on its second identifier, after a parseable one, on a
\* graph that held nodes and an edge: they are still there.
C3_Witness ==
    /\ last.op = "create_graph"
    /\ last.error.type = "InvalidSMILESError"
    /\ Unparseable(last.smiles_list) = {2}
    /\ Len(last.classes) = 2
    /\ graph.edges # {}
    /\ \A n \in DOMAIN graph.nodes : graph.nodes[n].smiles \in ValidSmiles
    /\ calls = 2

\* C4: after the first create_graph of a builder returns, for i < j < N the
\* edge {i, j} is there iff the larger of the scorer's two answers is strictly
\* above the threshold; every edge is such a pair, so there is no self-loop.
C4_EdgeIffAboveThreshold ==
    (Built /\ calls = 1) =>
        /\ \A i \in 0..(N - 1), j \in 0..(N - 1) :
              i < j => (({i, j} \in graph.edges) <=> (PairScore(i, j) > sim_threshold))
        /\ \A e \in graph.edges :
              \E i \in 0..(N - 1), j \in 0..(N - 1) : i < j /\ e = {i, j}

\* A first build of two structures made the edge {0, 1} although the scorer's
\* answer in the order (0, 1) is not above the threshold: the other order's is.
C4_Witness ==
    /\ Built /\ calls = 1 /\ N = 2 /\ EqualLengths
    /\ {0, 1} \in graph.edges
    /\ score[<<last.smiles_list[1], last.smiles_list[2]>>] <= sim_threshold

\* C5: after a create_graph that returns on equal-length inputs, node k carries
\* smiles_list[k] and, as categorical_label, the string form of classes[k].
C5_NodesCarryRawLabels ==
    (Built /\ EqualLengths) =>
        \A k \in 0..(N - 1) :
            /\ k \in DOMAIN graph.nodes
            /\ graph.nodes[k] = [smiles |-> last.smiles_list[k + 1],
                                 categorical_label |-> PyStr(last.classes[k + 1])]

\* C6: a builder that was constructed has names its tables support, so no
\* create_graph, here on equal-length inputs, fails on looking a name up (a
\* KeyError).
C6_NoUnknownNameMidBuild ==
    (last.op = "create_graph" /\ EqualLengths) => last.error.type # "KeyError"

\* C7: a create_graph, here on equal-length inputs, that fails on an
\* unparseable identifier raises an error that carries the first unparseable
\* identifier of smiles_list.
C7_ErrorCarriesFirstIdentifier ==
    (/\ last.op = "create_graph"
     /\ EqualLengths
     /\ last.error.type = "InvalidSMILESError") =>
        last.error.args = <<last.smiles_list[SetMin(Unparseable(last.smiles_list))]>>

\* The edges a first build of the last call's structures makes at a threshold.
EdgesAt(threshold) ==
    AddEdgesFrom(EmptyGraph, _calculate_fingerprints(last.smiles_list).fps,
                 threshold, 0, 1).graph.edges

\* C8: after the first create_graph of a builder returns, its edges are those
\* of its threshold; for thresholds t1 <= t2 the edges made at t2 are among
\* those made at t1; and at a threshold above every score, equal-length inputs
\* give N nodes and no edge.
C8_EdgesShrinkAsThresholdGrows ==
    (Built /\ calls = 1) =>
        /\ graph.edges = EdgesAt(sim_threshold)
        /\ \A t1 \in Thresholds, t2 \in Thresholds :
              t1 <= t2 => EdgesAt(t2) \subseteq EdgesAt(t1)
        /\ (sim_threshold > MaxScore /\ EqualLengths) =>
              (graph.edges = {} /\ DOMAIN graph.nodes = 0..(N - 1))

\* A first build of two structures made an edge that a higher threshold drops.
C8_Witness ==
    /\ Built /\ calls = 1 /\ N = 2 /\ EqualLengths
    /\ graph.edges = {{0, 1}}
    /\ \E t \in Thresholds : t > sim_threshold /\ EdgesAt(t) = {}

\* C9: whenever create_graph reaches _convert_classes, the vocabulary it
\* returns is strictly increasing and holds exactly the distinct labels of
\* classes, the indices are as many as the labels, each within the vocabulary,
\* and vocabulary[indices[p]] == classes[p]; no labels give an empty vocabulary
\* and no indices, without an error.
C9_LabelNormalizer ==
    (last.op = "create_graph" /\ last.stage # "_calculate_fingerprints") =>
        LET u == last.unique_classes
            idx == last.class_labels
        IN  /\ last.stage # "_convert_classes"
            /\ \A a \in DOMAIN u, b \in DOMAIN u :
                  a < b => (u[a].num < u[b].num /\ ~PyEq(u[a], u[b]))
            /\ \A a \in DOMAIN u : \E p \in DOMAIN last.classes : PyEq(u[a], last.classes[p])
            /\ Len(idx) = Len(last.classes)
            /\ \A p \in DOMAIN last.classes :
                  /\ idx[p] \in 0..(Len(u) - 1)
                  /\ PyEq(u[idx[p] + 1], last.classes[p])
            /\ (last.classes = <<>>) => (u = <<>> /\ idx = <<>>)

\* create_graph normalized two labels given in decreasing order, an int after
\* a float.
C9_Witness ==
    /\ Built /\ N = 2
    /\ Len(last.classes) = 2
    /\ last.classes[1].num > last.classes[2].num
    /\ last.classes[1].ty # last.classes[2].ty
    /\ last.class_labels = <<1, 0>>

\* C10: with a metric of the table and a descriptor of the table, a
\* create_graph over two or more parseable structures, with as many labels,
\* returns: the scorer scores every pair and never raises.
C10_EverySupportedMetricScores ==
    (/\ last.op = "create_graph"
     /\ EqualLengths
     /\ sim_metric \in metrics
     /\ descriptor \in descriptors
     /\ N >= 2
     /\ Unparseable(last.smiles_list) = {}) => last.error = NoError

====
